---- MODULE Spec2Model ----
\* Model of src/index.js: an Express API over three MongoDB collections
\* (assignments, reviews, submittedAssignments) whose protected routes go
\* through the verifyToken middleware first.
\*
\* A request occupies a slot of `req`.  Receive models the arrival of a request
\* and the synchronous part of verifyToken; every later action is the
\* continuation that runs when an awaited promise (verifyIdToken, a database
\* call) settles, so the database call of an action is its atomic point.
\*
\* Spec is the whole API with its requests handled one after the other;
\* SpecConcurrent is the writers of the assignments collection with MaxReq
\* requests in flight at once.
EXTENDS Integers, FiniteSets, Sequences, TLC

\* ---------------------------------------------------------------- bounds
MaxReq == 2      \* requests in flight at the same time
MaxDocs == 2     \* ObjectIds the driver generates in one run

Reqs == 1..MaxReq
DocIds == 1..MaxDocs

\* ---------------------------------------------------------------- values
NoValue == "undefined"          \* a property that is absent (JS undefined)
Emails == {"a@x", "b@x"}
Titles == {"t1", "t2"}
Marks == {NoValue, "10"}
Feedbacks == {"good"}
MalformedId == 0                \* an :id for which new ObjectId(id) throws
DateValue == "date"             \* the value of new Date()
NoBody == <<>>                  \* a request body the model does not record
IdParams == DocIds \cup {MalformedId}
QueryEmails == Emails \cup {NoValue, ""}

\* The Authorization header as header.split(" "); <<>> is an absent header.
Headers == { <<>>, <<"Basic", "tokA">>, <<"Bearer", "">>,
             <<"Bearer", "tokA">>, <<"Bearer", "tokB">>, <<"Bearer", "expired">> }

Routes == { "GET /", "POST /reviews", "GET /reviews", "POST /assignments",
            "GET /assignments", "GET /assignment/:id", "GET /leaderboard",
            "PUT /assignments/:id", "DELETE /assignments/:id",
            "GET /submitted-assignments", "POST /submitted-assignments",
            "PATCH /submitted-assignments/:id",
            "GET /pending-submitted-assignments" }

\* The routes registered with verifyToken as their first handler.
Protected == { "POST /assignments", "PUT /assignments/:id",
               "DELETE /assignments/:id", "GET /submitted-assignments",
               "POST /submitted-assignments", "PATCH /submitted-assignments/:id",
               "GET /pending-submitted-assignments" }

DbErrorMessage == "db error"            \* error.message of a failed database call
BsonErrorMessage == "invalid ObjectId"  \* error.message of new ObjectId(id)

VARIABLES
  assignments,           \* collection "assignments"
  reviews,               \* collection "reviews"
  submittedAssignments,  \* collection "submittedAssignments"
  nextId,                \* the next ObjectId the driver generates
  req,                   \* the requests in flight, by slot
  removed,               \* per id: how many deleteOne calls removed it
  succeeded              \* per id: how many DELETE requests answered success: true

vars == <<assignments, reviews, submittedAssignments, nextId, req,
          removed, succeeded>>
store == <<assignments, reviews, submittedAssignments>>

\* ---------------------------------------------------------------- responses
Response(status, success, msg) ==
  [status |-> status, success |-> success, msg |-> msg,
   result |-> {}, insertedId |-> 0, modifiedCount |-> 0]

NoResponse == Response(0, NoValue, "")

\* A slot: where the request is (pc), what it carries (route, header, body,
\* email), what verifyToken and the handler have set (user, id), the answer
\* (res), and what the request has done to the database so far (dbCalls,
\* dbFailed; raced: another request removed the assignment this one has found).
Idle == [pc |-> "idle", route |-> "GET /", header |-> <<>>, user |-> NoValue,
         id |-> MalformedId, email |-> NoValue, body |-> NoBody,
         res |-> NoResponse, dbCalls |-> 0, dbFailed |-> FALSE, raced |-> FALSE]

\* res.status(s).send(body): the request is answered and the handler returns.
Send(r, fields, response) ==
  req' = [req EXCEPT ![r] =
            [fields EXCEPT !.pc = "done", !.res = response, !.id = MalformedId]]

\* catch (error) { res.status(500).send({ success: false, message: error.message }) }
CatchError(r, fields, message) ==
  Send(r, fields, Response(500, "false", message))

\* An async handler without try/catch rejects.  Express 4 drops the rejection
\* and the request is never answered (newer Node versions end the process);
\* Express 5 passes it to the default error handler, which answers 500 with
\* its own error page.  The repository does not pin the version.
UncaughtRejection(r, fields) ==
  \/ req' = [req EXCEPT ![r] = [fields EXCEPT !.pc = "hung", !.id = MalformedId]]
  \/ Send(r, fields, Response(500, NoValue, "Internal Server Error"))

\* ---------------------------------------------------------------- verifyToken
\* Mutant of HeaderOk: the scheme is not compared, only a token is looked for.
HeaderHasToken(h) == Len(h) >= 2

\* authHeader && authHeader.startsWith("Bearer "), on the split header.
HeaderOk(h) == Len(h) >= 2 /\ h[1] = "Bearer"

\* authHeader.split(" ")[1]
Token(h) == h[2]

\* admin.auth().verifyIdToken(token): the decoded identity, or NoValue when the
\* verifier throws.
VerifyIdToken(token) ==
  CASE token = "tokA" -> "a@x"
    [] token = "tokB" -> "b@x"
    [] OTHER -> NoValue

\* A request arrives.  On a protected route verifyToken checks the header and,
\* if it is well-formed, awaits the verifier.
\* An unprotected route never reads the header, and the slot does not keep it.
Receive(r, routes, headers) ==
  /\ req[r].pc = "idle"
  /\ \E route \in routes :
       IF route \in Protected
         THEN \E h \in headers :
                LET fields == [Idle EXCEPT !.route = route, !.header = h] IN
                IF ~HeaderOk(h)
                  THEN Send(r, fields, Response(401, "false", "Unauthorized"))
                  ELSE req' = [req EXCEPT ![r] = [fields EXCEPT !.pc = "verify"]]
         ELSE req' = [req EXCEPT ![r] = [Idle EXCEPT !.route = route,
                                                     !.pc = "handler"]]
  /\ UNCHANGED <<store, nextId, removed, succeeded>>

\* The verifier settles: req.user = decoded; next(), or 403.
verifyToken(r) ==
  /\ req[r].pc = "verify"
  /\ LET decoded == VerifyIdToken(Token(req[r].header)) IN
       IF decoded = NoValue
         THEN Send(r, req[r], Response(403, "false", "Forbidden"))
         ELSE req' = [req EXCEPT ![r].user = decoded, ![r].pc = "handler"]
  /\ UNCHANGED <<store, nextId, removed, succeeded>>

InHandler(r, route) == req[r].pc = "handler" /\ req[r].route = route

\* One database call is issued by request r.
Called(fields) == [fields EXCEPT !.dbCalls = @ + 1]
Failed(fields) == [Called(fields) EXCEPT !.dbFailed = TRUE]

\* ---------------------------------------------------------------- GET /
GetRoot(r) ==
  /\ InHandler(r, "GET /")
  /\ Send(r, req[r], Response(200, NoValue, "Server is running"))
  /\ UNCHANGED <<store, nextId, removed, succeeded>>

\* ---------------------------------------------------------------- POST /reviews
Falsy(v) == v \in {NoValue, ""}

ReviewBodies ==
  [name : {NoValue, "", "Ann"}, image : {NoValue, "img"},
   email : {NoValue, "a@x"}, text : {NoValue, "nice"}]

\* Mutant of MissingFields: text is not checked.
MissingNameOrEmail(body) == Falsy(body.name) \/ Falsy(body.email)

\* !name || !email || !text
MissingFields(body) == Falsy(body.name) \/ Falsy(body.email) \/ Falsy(body.text)

\* { name, image, email, text, createdAt: new Date() }, with the generated _id
ReviewDoc(body, id) ==
  [_id |-> id, name |-> body.name, image |-> body.image, email |-> body.email,
   text |-> body.text, createdAt |-> DateValue]

PostReviews(r) ==
  /\ InHandler(r, "POST /reviews")
  /\ \E body \in ReviewBodies :
       LET fields == [req[r] EXCEPT !.body = body] IN
       IF MissingFields(body)
         THEN /\ Send(r, fields, Response(400, NoValue, "Missing fields"))
              /\ UNCHANGED <<reviews, nextId>>
         ELSE \/ /\ nextId <= MaxDocs
                 /\ reviews' = reviews \cup {ReviewDoc(body, nextId)}
                 /\ nextId' = nextId + 1
                 /\ Send(r, Called(fields),
                         [Response(201, "true", "Review added successfully")
                            EXCEPT !.insertedId = nextId])
              \/ /\ CatchError(r, Failed(fields), DbErrorMessage)
                 /\ UNCHANGED <<reviews, nextId>>
  /\ UNCHANGED <<assignments, submittedAssignments, removed, succeeded>>

\* ---------------------------------------------------------------- GET /reviews
\* find({}).sort().skip().limit().toArray() outside any try/catch.  The page of
\* reviews returned is not modelled, only that a list is sent.
GetReviews(r) ==
  /\ InHandler(r, "GET /reviews")
  /\ \/ Send(r, Called(req[r]), Response(200, NoValue, "reviews"))
     \/ UncaughtRejection(r, Failed(req[r]))
  /\ UNCHANGED <<store, nextId, removed, succeeded>>

\* ---------------------------------------------------------------- POST /assignments
\* The bodies posted: any creator or none; the title they start with is "t1"
\* and PUT /assignments/:id is what changes it.
AssignmentBodies == [creator : Emails \cup {NoValue}, title : {"t1"}]

\* insertOne(req.body), with the generated _id
AssignmentDoc(body, id) ==
  [_id |-> id, creator |-> body.creator, title |-> body.title]

PostAssignments(r) ==
  /\ InHandler(r, "POST /assignments")
  /\ \/ /\ nextId <= MaxDocs
        /\ \E body \in AssignmentBodies :
             assignments' = assignments \cup {AssignmentDoc(body, nextId)}
        /\ nextId' = nextId + 1
        /\ Send(r, Called(req[r]),
                [Response(200, "true", "Assignment created successfully")
                   EXCEPT !.insertedId = nextId])
     \/ /\ CatchError(r, Failed(req[r]), DbErrorMessage)
        /\ UNCHANGED <<assignments, nextId>>
  /\ UNCHANGED <<reviews, submittedAssignments, removed, succeeded>>

\* ---------------------------------------------------------------- GET /assignments
\* find(filter).toArray(); the filter only selects the documents returned.
GetAssignments(r) ==
  /\ InHandler(r, "GET /assignments")
  /\ \/ Send(r, Called(req[r]),
             [Response(200, NoValue, "assignments")
                EXCEPT !.result = {a._id : a \in assignments}])
     \/ CatchError(r, Failed(req[r]), DbErrorMessage)
  /\ UNCHANGED <<store, nextId, removed, succeeded>>

\* ---------------------------------------------------------------- GET /assignment/:id
\* findOne({ _id: new ObjectId(id) }) on a collection
FindOne(coll, id) == {d \in coll : d._id = id}

GetAssignment(r) ==
  /\ InHandler(r, "GET /assignment/:id")
  /\ \E id \in IdParams :
       IF id = MalformedId
         THEN CatchError(r, req[r], BsonErrorMessage)
         ELSE \/ IF FindOne(assignments, id) = {}
                   THEN Send(r, Called(req[r]),
                             Response(404, "false", "Assignment not found"))
                   ELSE Send(r, Called(req[r]),
                             [Response(200, NoValue, "assignment")
                                EXCEPT !.result = {id}])
              \/ CatchError(r, Failed(req[r]), DbErrorMessage)
  /\ UNCHANGED <<store, nextId, removed, succeeded>>

\* ---------------------------------------------------------------- GET /leaderboard
\* aggregate(pipeline).toArray() outside any try/catch.  The page of the
\* leaderboard returned is not modelled, only that a list is sent.
GetLeaderboard(r) ==
  /\ InHandler(r, "GET /leaderboard")
  /\ \/ Send(r, Called(req[r]), Response(200, NoValue, "leaderboard"))
     \/ UncaughtRejection(r, Failed(req[r]))
  /\ UNCHANGED <<store, nextId, removed, succeeded>>

\* ---------------------------------------------------------------- PUT /assignments/:id
\* updateOne({ _id }, { $set: { title, ... } }): the collection afterwards.  The
\* other fields of the $set are written the way title is.
UpdateAssignment(id, title) ==
  {IF a._id = id THEN [a EXCEPT !.title = title] ELSE a : a \in assignments}

\* result.modifiedCount of that updateOne
ModifiedAssignments(id, title) ==
  Cardinality({a \in assignments : a._id = id /\ a.title # title})

\* Mutant of PutAssignments: the assignment is looked up before it is updated.
PutAssignmentsAfterFindOne(r) ==
  /\ InHandler(r, "PUT /assignments/:id")
  /\ \E id \in DocIds, title \in Titles :
       IF FindOne(assignments, id) = {}
         THEN /\ Send(r, Called(req[r]),
                      Response(404, "false", "Assignment not found"))
              /\ UNCHANGED assignments
         ELSE /\ assignments' = UpdateAssignment(id, title)
              /\ Send(r, Called(Called(req[r])),
                      Response(200, "true", "Assignment updated successfully"))
  /\ UNCHANGED <<reviews, submittedAssignments, nextId, removed, succeeded>>

PutAssignments(r) ==
  /\ InHandler(r, "PUT /assignments/:id")
  /\ \E id \in IdParams, title \in Titles :
       IF id = MalformedId
         THEN /\ CatchError(r, req[r], BsonErrorMessage)
              /\ UNCHANGED assignments
         ELSE \/ /\ assignments' = UpdateAssignment(id, title)
                 /\ IF ModifiedAssignments(id, title) > 0
                      THEN Send(r, Called(req[r]),
                                Response(200, "true", "Assignment updated successfully"))
                      ELSE Send(r, Called(req[r]),
                                Response(400, "false", "Nothing was updated"))
              \/ /\ CatchError(r, Failed(req[r]), DbErrorMessage)
                 /\ UNCHANGED assignments
  /\ UNCHANGED <<reviews, submittedAssignments, nextId, removed, succeeded>>

\* ---------------------------------------------------------------- DELETE /assignments/:id
\* assignment.creator?.email !== email
NotCreator(assignment, email) == assignment.creator # email

\* The handler up to its first await and the continuation after findOne.
DeleteFindOne(r) ==
  /\ InHandler(r, "DELETE /assignments/:id")
  /\ \E id \in IdParams, email \in QueryEmails \ {""} :
       LET fields == [req[r] EXCEPT !.id = id] IN
       IF id = MalformedId
         THEN CatchError(r, fields, BsonErrorMessage)
         ELSE \/ IF FindOne(assignments, id) = {}
                   THEN Send(r, Called(fields),
                             Response(404, "false", "Assignment not found"))
                   ELSE IF \E a \in FindOne(assignments, id) : NotCreator(a, email)
                     THEN Send(r, Called(fields),
                               Response(403, "false",
                                 "You are not authorized to delete this assignment."))
                     ELSE req' = [req EXCEPT ![r] =
                                    [Called(fields) EXCEPT !.pc = "deleting"]]
              \/ CatchError(r, Failed(fields), DbErrorMessage)
  /\ UNCHANGED <<store, nextId, removed, succeeded>>

\* Mutant of DeletedCount: the acknowledgement is read instead of the count.
DeleteAcknowledged(id) == Cardinality({id})

\* result.deletedCount of deleteOne({ _id })
DeletedCount(id) == Cardinality(FindOne(assignments, id))

\* The continuation after deleteOne.  Every other request that has found the
\* same assignment and has not yet issued its deleteOne has now been overtaken.
DeleteDeleteOne(r) ==
  /\ req[r].pc = "deleting"
  /\ LET id == req[r].id IN
       \/ /\ assignments' = assignments \ FindOne(assignments, id)
          /\ removed' = [removed EXCEPT ![id] = @ + DeletedCount(id)]
          /\ LET answered ==
                   [Called(req[r]) EXCEPT !.pc = "done", !.id = MalformedId,
                      !.res = IF DeletedCount(id) > 0
                                THEN Response(200, "true", "")
                                ELSE Response(500, "false",
                                              "Delete failed internally.")]
             IN req' = [q \in Reqs |->
                          IF q = r THEN answered
                          ELSE IF req[q].pc = "deleting" /\ req[q].id = id
                                    /\ DeletedCount(id) > 0
                            THEN [req[q] EXCEPT !.raced = TRUE]
                            ELSE req[q]]
          /\ succeeded' = [succeeded EXCEPT ![id] =
                             IF DeletedCount(id) > 0 THEN @ + 1 ELSE @]
       \/ /\ CatchError(r, Failed(req[r]), DbErrorMessage)
          /\ UNCHANGED <<assignments, removed, succeeded>>
  /\ UNCHANGED <<reviews, submittedAssignments, nextId>>

\* ---------------------------------------------------------------- GET /submitted-assignments
GetSubmitted(r) ==
  /\ InHandler(r, "GET /submitted-assignments")
  /\ \E email \in QueryEmails :
       LET fields == [req[r] EXCEPT !.email = email] IN
       IF Falsy(email)
         THEN Send(r, fields, Response(400, NoValue, "Email is required"))
         ELSE \/ Send(r, Called(fields),
                      [Response(200, NoValue, "submissions") EXCEPT !.result =
                         {s._id : s \in {d \in submittedAssignments :
                                           d.userEmail = email}}])
              \/ CatchError(r, Failed(fields), DbErrorMessage)
  /\ UNCHANGED <<store, nextId, removed, succeeded>>

\* ---------------------------------------------------------------- POST /submitted-assignments
SubmissionBodies ==
  [userEmail : Emails \cup {NoValue}, status : {NoValue, "pending", "completed"}]

\* Mutant of SubmissionDoc: the body is spread last, { status: "pending", ...data }.
SubmissionDocBodyLast(data, id) ==
  [_id |-> id, userEmail |-> data.userEmail,
   status |-> IF data.status = NoValue THEN "pending" ELSE data.status,
   submittedAt |-> DateValue, obtainedMarks |-> NoValue, feedback |-> NoValue,
   markedAt |-> NoValue]

\* { ...data, status: "pending", submittedAt: new Date() }, with the generated _id
SubmissionDoc(data, id) ==
  [_id |-> id, userEmail |-> data.userEmail, status |-> "pending",
   submittedAt |-> DateValue, obtainedMarks |-> NoValue, feedback |-> NoValue,
   markedAt |-> NoValue]

PostSubmitted(r) ==
  /\ InHandler(r, "POST /submitted-assignments")
  /\ \E data \in SubmissionBodies :
       LET fields == [req[r] EXCEPT !.body = data] IN
       \/ /\ nextId <= MaxDocs
          /\ submittedAssignments' =
               submittedAssignments \cup {SubmissionDoc(data, nextId)}
          /\ nextId' = nextId + 1
          /\ Send(r, Called(fields),
                  [Response(200, "true", "") EXCEPT !.insertedId = nextId])
       \/ /\ CatchError(r, Failed(fields), DbErrorMessage)
          /\ UNCHANGED <<submittedAssignments, nextId>>
  /\ UNCHANGED <<assignments, reviews, removed, succeeded>>

\* ---------------------------------------------------------------- PATCH /submitted-assignments/:id
\* $set: { obtainedMarks, feedback, status: "completed", markedAt: new Date() }
Mark(s, obtainedMarks, feedback) ==
  [s EXCEPT !.obtainedMarks = obtainedMarks, !.feedback = feedback,
            !.status = "completed", !.markedAt = DateValue]

PatchSubmitted(r) ==
  /\ InHandler(r, "PATCH /submitted-assignments/:id")
  /\ \E id \in IdParams, obtainedMarks \in Marks, feedback \in Feedbacks :
       IF id = MalformedId
         THEN /\ CatchError(r, req[r], BsonErrorMessage)
              /\ UNCHANGED submittedAssignments
         ELSE \/ /\ submittedAssignments' =
                      {IF s._id = id THEN Mark(s, obtainedMarks, feedback)
                       ELSE s : s \in submittedAssignments}
                 \* markedAt is a new date each time, so every matched
                 \* document counts as modified.
                 /\ Send(r, Called(req[r]),
                         [Response(200, "true", "") EXCEPT !.modifiedCount =
                            Cardinality(FindOne(submittedAssignments, id))])
              \/ /\ CatchError(r, Failed(req[r]), DbErrorMessage)
                 /\ UNCHANGED submittedAssignments
  /\ UNCHANGED <<assignments, reviews, nextId, removed, succeeded>>

\* ---------------------------------------------------------------- GET /pending-submitted-assignments
\* Mutant of PendingFilter: the $ne on userEmail is left out.
PendingOfAnyone(s, email) == s.status = "pending"

\* { status: "pending", userEmail: { $ne: email } }
PendingFilter(s, email) == s.status = "pending" /\ s.userEmail # email

GetPending(r) ==
  /\ InHandler(r, "GET /pending-submitted-assignments")
  /\ \E email \in QueryEmails :
       LET fields == [req[r] EXCEPT !.email = email] IN
       IF Falsy(email)
         THEN Send(r, fields, Response(400, "false", "Email is required"))
         ELSE \/ Send(r, Called(fields),
                      [Response(200, NoValue, "submissions") EXCEPT !.result =
                         {s._id : s \in {d \in submittedAssignments :
                                           PendingFilter(d, email)}}])
              \/ CatchError(r, Failed(fields), DbErrorMessage)
  /\ UNCHANGED <<store, nextId, removed, succeeded>>

\* ---------------------------------------------------------------- environment
\* The client has its answer (or gives up on a request that never gets one)
\* and the slot takes the next request.
Close(r) ==
  /\ req[r].pc \in {"done", "hung"}
  /\ req' = [req EXCEPT ![r] = Idle]
  /\ UNCHANGED <<store, nextId, removed, succeeded>>

\* ---------------------------------------------------------------- specification
Init ==
  /\ assignments = {}
  /\ reviews = {}
  /\ submittedAssignments = {}
  /\ nextId = 1
  /\ req = [r \in Reqs |-> Idle]
  /\ removed = [i \in DocIds |-> 0]
  /\ succeeded = [i \in DocIds |-> 0]

\* The request in slot r takes its next step.
Step(r) ==
  \/ verifyToken(r)
  \/ GetRoot(r)
  \/ PostReviews(r)
  \/ GetReviews(r)
  \/ PostAssignments(r)
  \/ GetAssignments(r)
  \/ GetAssignment(r)
  \/ GetLeaderboard(r)
  \/ PutAssignments(r)
  \/ DeleteFindOne(r)
  \/ DeleteDeleteOne(r)
  \/ GetSubmitted(r)
  \/ PostSubmitted(r)
  \/ PatchSubmitted(r)
  \/ GetPending(r)
  \/ Close(r)

\* The whole API, one request at a time.  Up to its database call a request
\* reads and writes only its own slot, and every handler but DELETE
\* /assignments/:id makes a single call, so handling the requests one after the
\* other loses none of their outcomes; the interleavings of DELETE are those of
\* SpecConcurrent.
Serial == {1}

Next ==
  \E r \in Serial :
    \/ Receive(r, Routes, Headers)
    \/ Step(r)

Spec == Init /\ [][Next]_vars

\* The writers of the assignments collection, MaxReq requests at a time, all
\* carrying a token the verifier accepts.
AssignmentWriters == {"POST /assignments", "DELETE /assignments/:id"}
SignedIn == {<<"Bearer", "tokA">>}

NextConcurrent ==
  \E r \in Reqs :
    \/ Receive(r, AssignmentWriters, SignedIn)
    \/ verifyToken(r)
    \/ PostAssignments(r)
    \/ DeleteFindOne(r)
    \/ DeleteDeleteOne(r)
    \/ Close(r)

SpecConcurrent == Init /\ [][NextConcurrent]_vars

\* ================================================================ claims
Answered(r) == req[r].pc = "done"
Unauthorized == Response(401, "false", "Unauthorized")
Forbidden == Response(403, "false", "Forbidden")

\* The header starts with "Bearer ", read off the split header.
StartsWithBearer(h) == h # <<>> /\ h[1] = "Bearer" /\ Len(h) > 1
VerifierAccepts(h) == VerifyIdToken(h[2]) # NoValue

\* The route handler of request r has been entered.
Entered(r) ==
  \/ req[r].pc \in {"handler", "deleting", "hung"}
  \/ Answered(r) /\ req[r].res \notin {Unauthorized, Forbidden}

\* Some request issues a database call in this step.
SomeCall ==
  \E r \in Reqs : /\ req[r].pc \in {"handler", "deleting"}
                  /\ req'[r].dbCalls = req[r].dbCalls + 1

\* ---------------------------------------------------------------- C1
C1_State(r) ==
  LET q == req[r] IN
  (q.pc # "idle" /\ q.route \in Protected) =>
    /\ ~StartsWithBearer(q.header) =>
         Answered(r) /\ q.res = Unauthorized /\ q.dbCalls = 0 /\ q.user = NoValue
    /\ (StartsWithBearer(q.header) /\ ~VerifierAccepts(q.header)) =>
         /\ q.pc \in {"verify", "done"}
         /\ Answered(r) => q.res = Forbidden
         /\ q.dbCalls = 0 /\ q.user = NoValue
    /\ (Entered(r) \/ q.dbCalls > 0) =>
         /\ StartsWithBearer(q.header) /\ VerifierAccepts(q.header)
         /\ q.user = VerifyIdToken(q.header[2])

\* C1: on a route registered with verifyToken, a request whose Authorization
\* header is absent or does not start with "Bearer " is answered 401
\* Unauthorized, one whose token the verifier rejects is answered 403 Forbidden,
\* and in both cases the handler is not entered, the request issues no database
\* call and the store stays as it was; the handler is entered only once the
\* verifier has accepted the token.
C1_VerifyTokenGuards ==
  /\ [](\A r \in Reqs : C1_State(r))
  /\ [][store' # store => SomeCall]_vars

C1_Witness ==
  \E r \in Reqs :
    /\ req[r].route = "PATCH /submitted-assignments/:id"
    /\ req[r].header = <<"Bearer", "expired">>
    /\ Answered(r) /\ req[r].res = Forbidden
    /\ submittedAssignments # {}

\* ---------------------------------------------------------------- C2
\* C2: every insert, update or delete on a collection is performed by a request
\* whose bearer token the verifier has accepted.
C2_WritesAuthenticated ==
  [][store' # store =>
       \E r \in Reqs : /\ req[r].user # NoValue
                       /\ req'[r].dbCalls = req[r].dbCalls + 1]_vars

\* ---------------------------------------------------------------- C3
\* The request got past verifyToken and past the handler's validation of its
\* body or query, and the handler has returned.
PassedChecks(r) ==
  /\ req[r].pc \in {"done", "hung"}
  /\ req[r].res \notin {Unauthorized, Forbidden}
  /\ req[r].res.msg \notin {"Missing fields", "Email is required"}

\* C3 as stated, its second half: no handler issues two or more database calls
\* for a single request.
C3_NeverTwoCalls ==
  \A r \in Reqs : req[r].dbCalls <= 1

\* C3, amended: a request that passes validation and authentication and whose
\* :id, if the route has one, is a well-formed ObjectId makes no database call
\* on GET /, one (findOne) or two (findOne, then deleteOne) on
\* DELETE /assignments/:id, the second only when findOne returned an assignment
\* whose creator matched, and exactly one on every other route.
C3_CallsPerRoute ==
  \A r \in Reqs :
    (PassedChecks(r) /\ req[r].res.msg # BsonErrorMessage) =>
      CASE req[r].route = "GET /" -> req[r].dbCalls = 0
        [] req[r].route = "DELETE /assignments/:id" ->
             /\ req[r].dbCalls \in {1, 2}
             /\ req[r].res.status \in {403, 404} => req[r].dbCalls = 1
             /\ (req[r].res.status = 200
                   \/ req[r].res.msg = "Delete failed internally.")
                  => req[r].dbCalls = 2
             /\ req[r].dbCalls = 2 =>
                  \/ req[r].res.status = 200
                  \/ req[r].res.msg \in {"Delete failed internally.",
                                         DbErrorMessage}
        [] OTHER -> req[r].dbCalls = 1

C3_Witness ==
  \E r \in Reqs :
    /\ Answered(r) /\ req[r].route = "DELETE /assignments/:id"
    /\ req[r].res.status = 200 /\ req[r].dbCalls = 2

\* ---------------------------------------------------------------- C4
\* C4: a request whose database call failed is answered, with status 500 and a
\* body carrying success: false and the error's message.
C4_FailuresAnswered ==
  \A r \in Reqs :
    req[r].dbFailed =>
      Answered(r) /\ req[r].res = Response(500, "false", DbErrorMessage)

\* ---------------------------------------------------------------- C5
\* C5: an assignment that has a creator leaves the collection only in a step of
\* a DELETE request for its id whose verified identity is that creator.
C5_OnlyCreatorDeletes ==
  [][\A a \in assignments :
       (a.creator \in Emails /\ FindOne(assignments', a._id) = {}) =>
         \E r \in Reqs : /\ req[r].pc = "deleting"
                         /\ req[r].id = a._id
                         /\ req[r].user = a.creator]_vars

\* ---------------------------------------------------------------- C6
C6_State ==
  \A s \in submittedAssignments :
    /\ s.status \in {"pending", "completed"}
    /\ s.status = "completed" <=> s.markedAt # NoValue
    /\ s.status = "pending" => s.obtainedMarks = NoValue /\ s.feedback = NoValue

C6_Step ==
  /\ \A s \in submittedAssignments :
       \E t \in submittedAssignments' :
         /\ t._id = s._id
         /\ s.status = "completed" => t.status = "completed"
         /\ t # s =>
              /\ \E r \in Reqs : InHandler(r, "PATCH /submitted-assignments/:id")
              /\ t.status = "completed" /\ t.markedAt = DateValue
              /\ t.obtainedMarks \in Marks /\ t.feedback \in Feedbacks
              /\ t.userEmail = s.userEmail /\ t.submittedAt = s.submittedAt
  /\ \A t \in submittedAssignments' :
       FindOne(submittedAssignments, t._id) = {} =>
         /\ \E r \in Reqs : InHandler(r, "POST /submitted-assignments")
         /\ t.status = "pending"

\* C6: every submission has status "pending" or "completed"; POST
\* /submitted-assignments creates it "pending" whatever status the body
\* carries; only PATCH /submitted-assignments/:id changes it, to "completed"
\* together with obtainedMarks, feedback and markedAt; a "completed" submission
\* never becomes "pending" again.
C6_StatusLifecycle == []C6_State /\ [][C6_Step]_vars

C6_Witness ==
  /\ \E s \in submittedAssignments : s.status = "completed"
  /\ \E r \in Reqs :
       /\ Answered(r) /\ req[r].route = "POST /submitted-assignments"
       /\ req[r].res.status = 200
       /\ req[r].body.status = "completed"
       /\ \E s \in submittedAssignments :
            s._id = req[r].res.insertedId /\ s.status = "pending"

\* ---------------------------------------------------------------- C7
\* C7: GET /pending-submitted-assignments with email e answers with exactly the
\* submissions whose status is "pending" and whose userEmail is not e, none of
\* them marked, and leaves the store as it was; without an email it answers 400
\* "Email is required" and makes no database call.
C7_PendingOfOthers ==
  /\ [](\A r \in Reqs :
          (Answered(r) /\ req[r].route = "GET /pending-submitted-assignments"
             /\ req[r].res # Unauthorized /\ req[r].res # Forbidden) =>
            IF req[r].email \in {NoValue, ""}
              THEN /\ req[r].res = Response(400, "false", "Email is required")
                   /\ req[r].dbCalls = 0
              ELSE req[r].res.status = 200 =>
                     /\ req[r].res.result =
                          {s._id : s \in {d \in submittedAssignments :
                             d.status = "pending" /\ d.userEmail # req[r].email}}
                     /\ \A s \in submittedAssignments :
                          s._id \in req[r].res.result => s.markedAt = NoValue)
  /\ [][(\E r \in Reqs : InHandler(r, "GET /pending-submitted-assignments"))
          => store' = store]_vars

C7_Witness ==
  \E r \in Reqs :
    /\ Answered(r) /\ req[r].route = "GET /pending-submitted-assignments"
    /\ req[r].email = "a@x"
    /\ req[r].res.result # {}
    /\ \E s \in submittedAssignments :
         s._id \notin req[r].res.result /\ s.userEmail = "a@x"
           /\ s.status = "pending"

\* ---------------------------------------------------------------- C8
BodyIncomplete(body) ==
  \E f \in {body.name, body.email, body.text} : f \in {NoValue, ""}

\* The review POST /reviews stores for a body, under the id it answers with.
StoredReview(r) ==
  [_id |-> req[r].res.insertedId, name |-> req[r].body.name,
   image |-> req[r].body.image, email |-> req[r].body.email,
   text |-> req[r].body.text, createdAt |-> DateValue]

\* C8 as stated: a body without name, email or text is answered 400 "Missing
\* fields"; every other body is answered 201 with the id of the inserted review.
C8_ValidatedThenInserted ==
  \A r \in Reqs :
    (Answered(r) /\ req[r].route = "POST /reviews") =>
      IF BodyIncomplete(req[r].body)
        THEN req[r].res = Response(400, NoValue, "Missing fields")
        ELSE req[r].res.status = 201 /\ StoredReview(r) \in reviews

C8_State ==
  \A r \in Reqs :
    (Answered(r) /\ req[r].route = "POST /reviews") =>
      IF BodyIncomplete(req[r].body)
        THEN /\ req[r].res = Response(400, NoValue, "Missing fields")
             /\ req[r].dbCalls = 0
        ELSE /\ req[r].dbCalls = 1
             /\ IF req[r].dbFailed
                  THEN req[r].res = Response(500, "false", DbErrorMessage)
                  ELSE /\ req[r].res.status = 201
                       /\ StoredReview(r) \in reviews

C8_Step ==
  reviews' # reviews =>
    \E r \in Reqs :
      /\ InHandler(r, "POST /reviews")
      /\ ~BodyIncomplete(req'[r].body)
      /\ req'[r].res.status = 201
      /\ reviews' = reviews \cup {StoredReview(r)'}
      /\ FindOne(reviews, req'[r].res.insertedId) = {}

\* C8, amended: a body without name, email or text is answered 400 "Missing
\* fields" and the reviews collection stays as it was; for every other body one
\* insertOne is issued, and if it succeeds exactly one review with the body's
\* name, image, email and text and a createdAt date is inserted and the answer
\* is 201 with its id, while if it fails nothing is inserted and the answer is
\* 500 with the error's message.
C8_ValidatedThenInsertedUnlessDbFails == []C8_State /\ [][C8_Step]_vars

C8_Witness ==
  \E r \in Reqs :
    /\ Answered(r) /\ req[r].route = "POST /reviews"
    /\ req[r].res.status = 201
    /\ StoredReview(r) \in reviews
    /\ Cardinality(reviews) = 2

\* ---------------------------------------------------------------- C9
FailedInternally(r) ==
  Answered(r) /\ req[r].res.msg = "Delete failed internally."

C9_State ==
  /\ \A i \in DocIds : removed[i] <= 1 /\ succeeded[i] <= 1
  /\ \A r \in Reqs : FailedInternally(r) => req[r].raced

\* A request becomes raced only while it is between its findOne and its
\* deleteOne and another request's deleteOne removes the assignment it found.
C9_Step ==
  \A r \in Reqs :
    (req'[r].raced /\ ~req[r].raced) =>
      /\ req[r].pc = "deleting" /\ req'[r].pc = "deleting"
      /\ \E q \in Reqs \ {r} :
           /\ req[q].pc = "deleting" /\ req[q].id = req[r].id
           /\ req'[q].pc = "done" /\ req'[q].res.status = 200
           /\ removed'[req[r].id] = removed[req[r].id] + 1

\* C9: under any interleaving each assignment is removed at most once and at
\* most one DELETE for an id answers success: true; a DELETE answers 500
\* "Delete failed internally." only if another DELETE of the same id removed
\* the assignment between its findOne and its deleteOne, which takes two
\* requests in flight at once.
C9_DeleteRace == []C9_State /\ [][C9_Step]_vars

C9_Witness ==
  \E r \in Reqs, q \in Reqs :
    /\ FailedInternally(r) /\ req[r].dbCalls = 2
    /\ q # r /\ Answered(q) /\ req[q].res.status = 200
    /\ \E i \in DocIds : removed[i] = 1 /\ succeeded[i] = 1

====
